---- MODULE Spec2Model ----
(***************************************************************************)
(* Staking state transitions of chain-abci (src/chain-abci/src/staking/    *)
(* tx.rs): node_join, unjail, deposit, unbond, withdraw over the store of  *)
(* StakedState records and the validator-address index of StakingTable.    *)
(***************************************************************************)
EXTENDS Integers, Sequences, FiniteSets, TLC

\* ---------------------------------------------------------------- bounds
\* Coin supply bound (Coin::max), scaled down.
MaxCoin == 2
\* Largest Timespec (u64::MAX), scaled down; block times range over 0..TimespecMax.
TimespecMax == 2
\* Nonce cap of the general specification.
MaxNonce == 2
\* Nonce cap of the rotation specification (a first join and 11 rotations).
MaxRotNonce == 12
\* Number of distinct consensus validator addresses.
NumValAddr == 12
\* Largest fee accompanying an unbond.
MaxFee == 1
\* StakingTable::minimal_required_staking of the modelled network.
MinimalRequiredStaking == 1

\* ------------------------------------------------------------- constants
MAX_USED_VALIDATOR_ADDR == 10

\* Option::None of a Timespec.
NoTime == -1

Accounts == {"A", "B"}
ValAddrs == 1..NumValAddr
Times == 0..TimespecMax
Coins == 0..MaxCoin
Roles == {"CouncilNode", "CommunityNode"}
\* Outcome of reading and verifying the key package of a join request:
\* a decode failure, a verification failure, or the attested isv_svn.
KeyPackages == {"undecodable", "unverifiable", "svn0", "svn1"}
\* Values of recent_isv_svn.
Svns == {0, 1}
EvidenceAges == {0, 1, TimespecMax}
\* The evidence ages of the two-account and rotation specifications.
RotAges == {1, TimespecMax}
UnbondingPeriods == {0, 1, TimespecMax}

VARIABLES
    heap,           \* store: StakedStateAddress -> StakedState
    idx,            \* StakingTable::idx_validator_address
    block_time,     \* block time of the block being executed
    mock_enclave,   \* cfg!(feature = "mock-enclave")
    ledger,         \* per account: deposits - unbond fees - withdrawals so far
    aborted,        \* the eviction assertion of node_join failed
    last            \* the last call and its result

vars == <<heap, idx, block_time, mock_enclave, ledger, aborted, last>>

\* ------------------------------------------------------------ primitives
NoNode ==
    [kind |-> "None", validator_address |-> 0, jailed_until |-> NoTime,
     active |-> TRUE, used_validator_addresses |-> <<>>]

DefaultStakedState ==
    [nonce |-> 0, bonded |-> 0, unbonded |-> 0, unbonded_from |-> 0,
     node_meta |-> NoNode]

get_or_default(h, addr) == h[addr]

set_staking(h, addr, staking) == [h EXCEPT ![addr] = staking]

inc_nonce(staking) == [staking EXCEPT !.nonce = @ + 1]

saturating_add(a, b) == IF a + b > TimespecMax THEN TimespecMax ELSE a + b

\* Coin + Coin and Coin - Coin: checked, -1 stands for Err(CoinError).
coin_add(a, b) == IF a + b > MaxCoin THEN -1 ELSE a + b

coin_sub(a, b) == IF a < b THEN -1 ELSE a - b

val_is_jailed(val) == val.jailed_until # NoTime

val_is_active(val) == val.active

is_jailed(staking) ==
    staking.node_meta.kind = "CouncilNode" /\ val_is_jailed(staking.node_meta)

Validator_new(val_addr) ==
    [kind |-> "CouncilNode", validator_address |-> val_addr,
     jailed_until |-> NoTime, active |-> TRUE,
     used_validator_addresses |-> <<>>]

idx_insert(i, k, v) == [x \in (DOMAIN i) \cup {k} |-> IF x = k THEN v ELSE i[x]]

idx_remove(i, ks) == [x \in (DOMAIN i) \ ks |-> i[x]]

insert_validator(i, addr, staking) ==
    idx_insert(i, staking.node_meta.validator_address, addr)

SeqRange(s) == {s[k] : k \in 1..Len(s)}

UsedAddrs(val) == {e[1] : e \in SeqRange(val.used_validator_addresses)}

\* ------------------------------------------------------ add_old_val_addr
\* Variant: the retired address is not recorded in the list.
add_old_val_addr_nopush(used, bt, old_val_addr, max_bound, max_evidence_age) ==
    LET out_of_date ==
            SelectSeq(used, LAMBDA e : saturating_add(e[2], max_evidence_age) <= bt)
    IN  IF Len(used) - Len(out_of_date) < max_bound
        THEN [some |-> TRUE,
              used |-> SelectSeq(used,
                          LAMBDA e : saturating_add(e[2], max_evidence_age) > bt),
              out_of_date |-> {e[1] : e \in SeqRange(out_of_date)}]
        ELSE [some |-> FALSE, used |-> used, out_of_date |-> {}]

\* Variant: the bound is compared with <= instead of <.
add_old_val_addr_le(used, bt, old_val_addr, max_bound, max_evidence_age) ==
    LET out_of_date ==
            SelectSeq(used, LAMBDA e : saturating_add(e[2], max_evidence_age) <= bt)
    IN  IF Len(used) - Len(out_of_date) <= max_bound
        THEN [some |-> TRUE,
              used |-> Append(SelectSeq(used,
                          LAMBDA e : saturating_add(e[2], max_evidence_age) > bt),
                          <<old_val_addr, bt>>),
              out_of_date |-> {e[1] : e \in SeqRange(out_of_date)}]
        ELSE [some |-> FALSE, used |-> used, out_of_date |-> {}]

\* Variant: an entry expires one time unit late (< instead of <=).
add_old_val_addr_lt(used, bt, old_val_addr, max_bound, max_evidence_age) ==
    LET out_of_date ==
            SelectSeq(used, LAMBDA e : saturating_add(e[2], max_evidence_age) < bt)
    IN  IF Len(used) - Len(out_of_date) < max_bound
        THEN [some |-> TRUE,
              used |-> Append(SelectSeq(used,
                          LAMBDA e : saturating_add(e[2], max_evidence_age) >= bt),
                          <<old_val_addr, bt>>),
              out_of_date |-> {e[1] : e \in SeqRange(out_of_date)}]
        ELSE [some |-> FALSE, used |-> used, out_of_date |-> {}]

\* Variant: the expired entries are reported but stay in the list.
add_old_val_addr_noretain(used, bt, old_val_addr, max_bound, max_evidence_age) ==
    LET out_of_date ==
            SelectSeq(used, LAMBDA e : saturating_add(e[2], max_evidence_age) <= bt)
    IN  IF Len(used) - Len(out_of_date) < max_bound
        THEN [some |-> TRUE,
              used |-> Append(used, <<old_val_addr, bt>>),
              out_of_date |-> {e[1] : e \in SeqRange(out_of_date)}]
        ELSE [some |-> FALSE, used |-> used, out_of_date |-> {}]

add_old_val_addr(used, bt, old_val_addr, max_bound, max_evidence_age) ==
    LET out_of_date ==
            SelectSeq(used, LAMBDA e : saturating_add(e[2], max_evidence_age) <= bt)
    IN  IF Len(used) - Len(out_of_date) < max_bound
        THEN [some |-> TRUE,
              used |-> Append(SelectSeq(used,
                          LAMBDA e : saturating_add(e[2], max_evidence_age) > bt),
                          <<old_val_addr, bt>>),
              out_of_date |-> {e[1] : e \in SeqRange(out_of_date)}]
        ELSE [some |-> FALSE, used |-> used, out_of_date |-> {}]

\* ------------------------------------------------------------ results
Ok(ret) == [ok |-> TRUE, err |-> "None", ret |-> ret]

Err(reason) == [ok |-> FALSE, err |-> reason, ret |-> 0]

\* What a handler leaves behind: its result, the store and the index.
Out(res, h, i) == [res |-> res, heap |-> h, idx |-> i, panic |-> FALSE]

\* ---------------------------------------------------------- node_join
\* Attested isv_svn of the request, or the error of reading/verifying it.
attest(mock, keypackage) ==
    IF mock THEN Ok(0)
    ELSE IF keypackage = "undecodable" THEN Err("KeyPackageDecodeError")
    ELSE IF keypackage = "unverifiable" THEN Err("KeyPackageVerifyError")
    ELSE IF keypackage = "svn0" THEN Ok(0) ELSE Ok(1)

\* Variant: the attested version is returned whatever the recent one is.
new_isv_svn_attested(isv_svn, recent_isv_svn) == isv_svn

new_isv_svn(isv_svn, recent_isv_svn) ==
    IF isv_svn > recent_isv_svn THEN isv_svn ELSE recent_isv_svn

\* Variant: a re-join does not check the new address against the index.
node_join_rejoin_nodup(h, i, bt, max_evidence_age, tx, staking, svn) ==
    LET val == staking.node_meta
        val_addr == tx.val_addr
        old_val_addr == val.validator_address
        rot == add_old_val_addr(val.used_validator_addresses, bt, old_val_addr,
                                MAX_USED_VALIDATOR_ADDR, max_evidence_age)
        rejoined(used) ==
            inc_nonce([staking EXCEPT
                !.node_meta.validator_address = val_addr,
                !.node_meta.used_validator_addresses = used,
                !.node_meta.active = TRUE])
    IN  IF val_is_jailed(val) THEN Out(Err("IsJailed"), h, i)
        ELSE IF val_is_active(val) THEN Out(Err("AlreadyJoined"), h, i)
        ELSE IF old_val_addr = val_addr
             THEN Out(Ok(svn),
                      set_staking(h, tx.address,
                                  rejoined(val.used_validator_addresses)), i)
        ELSE IF ~rot.some THEN Out(Err("UsedValidatorAddrFull"), h, i)
        ELSE Out(Ok(svn),
                 set_staking(h, tx.address, rejoined(rot.used)),
                 idx_insert(idx_remove(i, rot.out_of_date), val_addr, tx.address))

\* Lines 65-105: the account already has CouncilNode state.
\* Variant: the room in the used list is looked at before the index.
node_join_rejoin_full_first(h, i, bt, max_evidence_age, tx, staking, svn) ==
    LET val == staking.node_meta
        val_addr == tx.val_addr
        old_val_addr == val.validator_address
        rot == add_old_val_addr(val.used_validator_addresses, bt, old_val_addr,
                                MAX_USED_VALIDATOR_ADDR, max_evidence_age)
        asserted == \A u \in rot.out_of_date : u \in DOMAIN i /\ i[u] = tx.address
        rejoined(used) == inc_nonce([staking EXCEPT
            !.node_meta.validator_address = val_addr,
            !.node_meta.used_validator_addresses = used,
            !.node_meta.active = TRUE])
    IN  IF val_is_jailed(val) THEN Out(Err("IsJailed"), h, i)
        ELSE IF val_is_active(val) THEN Out(Err("AlreadyJoined"), h, i)
        ELSE IF old_val_addr = val_addr
             THEN Out(Ok(svn),
                      set_staking(h, tx.address,
                                  rejoined(val.used_validator_addresses)), i)
        ELSE IF ~rot.some THEN Out(Err("UsedValidatorAddrFull"), h, i)
        ELSE IF val_addr \in DOMAIN i
             THEN Out(Err("DuplicateValidatorAddress"), h, i)
        ELSE IF ~asserted
             THEN [res |-> Err("Panic"), heap |-> h, idx |-> i, panic |-> TRUE]
        ELSE Out(Ok(svn),
                 set_staking(h, tx.address, rejoined(rot.used)),
                 idx_insert(idx_remove(i, rot.out_of_date), val_addr, tx.address))

\* Variant: a rotation does not enter the new address into the index.
node_join_rejoin_noinsert(h, i, bt, max_evidence_age, tx, staking, svn) ==
    LET val == staking.node_meta
        val_addr == tx.val_addr
        old_val_addr == val.validator_address
        rot == add_old_val_addr(val.used_validator_addresses, bt, old_val_addr,
                                MAX_USED_VALIDATOR_ADDR, max_evidence_age)
        asserted == \A u \in rot.out_of_date : u \in DOMAIN i /\ i[u] = tx.address
        rejoined(used) == inc_nonce([staking EXCEPT
            !.node_meta.validator_address = val_addr,
            !.node_meta.used_validator_addresses = used,
            !.node_meta.active = TRUE])
    IN  IF val_is_jailed(val) THEN Out(Err("IsJailed"), h, i)
        ELSE IF val_is_active(val) THEN Out(Err("AlreadyJoined"), h, i)
        ELSE IF old_val_addr = val_addr
             THEN Out(Ok(svn),
                      set_staking(h, tx.address,
                                  rejoined(val.used_validator_addresses)), i)
        ELSE IF val_addr \in DOMAIN i
             THEN Out(Err("DuplicateValidatorAddress"), h, i)
        ELSE IF ~rot.some THEN Out(Err("UsedValidatorAddrFull"), h, i)
        ELSE IF ~asserted
             THEN [res |-> Err("Panic"), heap |-> h, idx |-> i, panic |-> TRUE]
        ELSE Out(Ok(svn),
                 set_staking(h, tx.address, rejoined(rot.used)),
                 idx_remove(i, rot.out_of_date))

node_join_rejoin(h, i, bt, max_evidence_age, tx, staking, svn) ==
    LET val == staking.node_meta
        val_addr == tx.val_addr
        old_val_addr == val.validator_address
        rot == add_old_val_addr(val.used_validator_addresses, bt, old_val_addr,
                                MAX_USED_VALIDATOR_ADDR, max_evidence_age)
        asserted == \A u \in rot.out_of_date :
                        u \in DOMAIN i /\ i[u] = tx.address
        rejoined(used) ==
            inc_nonce([staking EXCEPT
                !.node_meta.validator_address = val_addr,
                !.node_meta.used_validator_addresses = used,
                !.node_meta.active = TRUE])
    IN  IF val_is_jailed(val) THEN Out(Err("IsJailed"), h, i)
        ELSE IF val_is_active(val) THEN Out(Err("AlreadyJoined"), h, i)
        ELSE IF old_val_addr = val_addr
             THEN Out(Ok(svn),
                      set_staking(h, tx.address,
                                  rejoined(val.used_validator_addresses)), i)
        ELSE IF val_addr \in DOMAIN i
             THEN Out(Err("DuplicateValidatorAddress"), h, i)
        ELSE IF ~rot.some THEN Out(Err("UsedValidatorAddrFull"), h, i)
        ELSE IF ~asserted
             THEN [res |-> Err("Panic"), heap |-> h, idx |-> i, panic |-> TRUE]
        ELSE Out(Ok(svn),
                 set_staking(h, tx.address, rejoined(rot.used)),
                 idx_insert(idx_remove(i, rot.out_of_date), val_addr, tx.address))

\* Variant: a first join does not check the address against the index.
node_join_new_nodup(h, i, tx, staking, svn) ==
    LET joined == [staking EXCEPT !.node_meta = Validator_new(tx.val_addr)]
    IN  Out(Ok(svn),
            set_staking(h, tx.address, inc_nonce(joined)),
            insert_validator(i, tx.address, joined))

\* Lines 106-122: first appearance of the account as a validator.
node_join_new(h, i, tx, staking, svn) ==
    IF tx.val_addr \in DOMAIN i
    THEN Out(Err("DuplicateValidatorAddress"), h, i)
    ELSE LET joined == [staking EXCEPT !.node_meta = Validator_new(tx.val_addr)]
         IN  Out(Ok(svn),
                 set_staking(h, tx.address, inc_nonce(joined)),
                 insert_validator(i, tx.address, joined))

\* Variant: the nonce is incremented and stored before the bond is checked.
node_join_early_nonce(h, i, mock, bt, max_evidence_age, recent_isv_svn, tx) ==
    LET staking == get_or_default(h, tx.address)
        att == attest(mock, tx.keypackage)
        svn == new_isv_svn(att.ret, recent_isv_svn)
    IN  IF tx.nonce # staking.nonce THEN Out(Err("IncorrectNonce"), h, i)
        ELSE IF staking.bonded < MinimalRequiredStaking
             THEN Out(Err("BondedNotEnough"),
                      set_staking(h, tx.address, inc_nonce(staking)), i)
        ELSE IF ~att.ok THEN Out(att, h, i)
        ELSE IF tx.role # "CouncilNode" THEN Out(Err("WIPNotValidator"), h, i)
        ELSE IF staking.node_meta.kind = "CouncilNode"
             THEN node_join_rejoin(h, i, bt, max_evidence_age, tx, staking, svn)
        ELSE node_join_new(h, i, tx, staking, svn)

node_join(h, i, mock, bt, max_evidence_age, recent_isv_svn, tx) ==
    LET staking == get_or_default(h, tx.address)
        att == attest(mock, tx.keypackage)
        svn == new_isv_svn(att.ret, recent_isv_svn)
    IN  IF tx.nonce # staking.nonce THEN Out(Err("IncorrectNonce"), h, i)
        ELSE IF staking.bonded < MinimalRequiredStaking
             THEN Out(Err("BondedNotEnough"), h, i)
        ELSE IF ~att.ok THEN Out(att, h, i)
        ELSE IF tx.role # "CouncilNode" THEN Out(Err("WIPNotValidator"), h, i)
        ELSE IF staking.node_meta.kind = "CouncilNode"
             THEN node_join_rejoin(h, i, bt, max_evidence_age, tx, staking, svn)
        ELSE node_join_new(h, i, tx, staking, svn)

\* ------------------------------------------------------------- unjail
\* Variant: a successful unjail does not increment the nonce.
unjail_no_nonce(h, i, bt, tx) ==
    LET staking == get_or_default(h, tx.address)
        val == staking.node_meta
    IN  IF tx.nonce # staking.nonce THEN Out(Err("IncorrectNonce"), h, i)
        ELSE IF val.kind # "CouncilNode" THEN Out(Err("NotJailed"), h, i)
        ELSE IF val.jailed_until = NoTime THEN Out(Err("NotJailed"), h, i)
        ELSE IF bt >= val.jailed_until
             THEN Out(Ok(0),
                      set_staking(h, tx.address,
                          [staking EXCEPT !.node_meta.jailed_until = NoTime]), i)
        ELSE Out(Err("JailTimeNotExpired"), h, i)

\* Variant: the jail time must have passed strictly (> instead of >=).
unjail_strict(h, i, bt, tx) ==
    LET staking == get_or_default(h, tx.address)
        val == staking.node_meta
    IN  IF tx.nonce # staking.nonce THEN Out(Err("IncorrectNonce"), h, i)
        ELSE IF val.kind # "CouncilNode" THEN Out(Err("NotJailed"), h, i)
        ELSE IF val.jailed_until = NoTime THEN Out(Err("NotJailed"), h, i)
        ELSE IF bt > val.jailed_until
             THEN Out(Ok(0),
                      set_staking(h, tx.address,
                          inc_nonce([staking EXCEPT
                                       !.node_meta.jailed_until = NoTime])), i)
        ELSE Out(Err("JailTimeNotExpired"), h, i)

unjail(h, i, bt, tx) ==
    LET staking == get_or_default(h, tx.address)
        val == staking.node_meta
    IN  IF tx.nonce # staking.nonce THEN Out(Err("IncorrectNonce"), h, i)
        ELSE IF val.kind # "CouncilNode" THEN Out(Err("NotJailed"), h, i)
        ELSE IF val.jailed_until = NoTime THEN Out(Err("NotJailed"), h, i)
        ELSE IF bt >= val.jailed_until
             THEN Out(Ok(0),
                      set_staking(h, tx.address,
                          inc_nonce([staking EXCEPT
                                       !.node_meta.jailed_until = NoTime])), i)
        ELSE Out(Err("JailTimeNotExpired"), h, i)

\* ------------------------------------------------------------ deposit
add_bonded(amount, staking) ==
    LET bonded == coin_add(staking.bonded, amount)
    IN  IF bonded = -1 THEN [ok |-> FALSE, staking |-> staking]
        ELSE [ok |-> TRUE, staking |-> [staking EXCEPT !.bonded = bonded]]

\* Variant: a successful deposit increments the nonce.
deposit_inc_nonce(h, i, addr, amount) ==
    LET staking == get_or_default(h, addr)
        added == add_bonded(amount, staking)
    IN  IF is_jailed(staking) THEN Out(Err("IsJailed"), h, i)
        ELSE IF ~added.ok THEN Out(Err("CoinError"), h, i)
        ELSE Out(Ok(0), set_staking(h, addr, inc_nonce(added.staking)), i)

deposit(h, i, addr, amount) ==
    LET staking == get_or_default(h, addr)
        added == add_bonded(amount, staking)
    IN  IF is_jailed(staking) THEN Out(Err("IsJailed"), h, i)
        ELSE IF ~added.ok THEN Out(Err("CoinError"), h, i)
        ELSE Out(Ok(0), set_staking(h, addr, added.staking), i)

\* ------------------------------------------------------------- unbond
sub_bonded(amount, staking) ==
    LET bonded == coin_sub(staking.bonded, amount)
    IN  IF bonded = -1 THEN [ok |-> FALSE, staking |-> staking]
        ELSE [ok |-> TRUE, staking |-> [staking EXCEPT !.bonded = bonded]]

\* Variant: the fee is not taken from the bonded balance.
unbond_no_fee(h, i, unbonding_period, bt, tx, fee) ==
    LET staking == get_or_default(h, tx.from_staked_account)
        unbonded == coin_add(staking.unbonded, tx.value)
        total == coin_add(tx.value, fee)
        subbed == sub_bonded(tx.value, staking)
        unbonded_from == saturating_add(bt, unbonding_period)
    IN  IF tx.nonce # staking.nonce THEN Out(Err("IncorrectNonce"), h, i)
        ELSE IF is_jailed(staking) THEN Out(Err("IsJailed"), h, i)
        ELSE IF tx.value = 0 THEN Out(Err("ZeroValue"), h, i)
        ELSE IF unbonded = -1 THEN Out(Err("CoinError"), h, i)
        ELSE IF total = -1 THEN Out(Err("CoinError"), h, i)
        ELSE IF ~subbed.ok THEN Out(Err("CoinError"), h, i)
        ELSE Out(Ok(unbonded_from),
                 set_staking(h, tx.from_staked_account,
                     inc_nonce([subbed.staking EXCEPT
                                  !.unbonded = unbonded,
                                  !.unbonded_from = unbonded_from])), i)

\* Variant: a validator whose bond falls below the minimum leaves the active
\* set.
unbond_deactivating(h, i, unbonding_period, bt, tx, fee) ==
    LET staking == get_or_default(h, tx.from_staked_account)
        unbonded == coin_add(staking.unbonded, tx.value)
        total == coin_add(tx.value, fee)
        subbed == sub_bonded(total, staking)
        unbonded_from == saturating_add(bt, unbonding_period)
        stays == subbed.staking.bonded >= MinimalRequiredStaking
    IN  IF tx.nonce # staking.nonce THEN Out(Err("IncorrectNonce"), h, i)
        ELSE IF is_jailed(staking) THEN Out(Err("IsJailed"), h, i)
        ELSE IF tx.value = 0 THEN Out(Err("ZeroValue"), h, i)
        ELSE IF unbonded = -1 THEN Out(Err("CoinError"), h, i)
        ELSE IF total = -1 THEN Out(Err("CoinError"), h, i)
        ELSE IF ~subbed.ok THEN Out(Err("CoinError"), h, i)
        ELSE Out(Ok(unbonded_from),
                 set_staking(h, tx.from_staked_account,
                     inc_nonce([subbed.staking EXCEPT
                                  !.unbonded = unbonded,
                                  !.unbonded_from = unbonded_from,
                                  !.node_meta.active = @ /\ stays])), i)

\* Variant: a zero value is not turned away.
unbond_zero_value(h, i, unbonding_period, bt, tx, fee) ==
    LET staking == get_or_default(h, tx.from_staked_account)
        unbonded == coin_add(staking.unbonded, tx.value)
        total == coin_add(tx.value, fee)
        subbed == sub_bonded(total, staking)
        unbonded_from == saturating_add(bt, unbonding_period)
    IN  IF tx.nonce # staking.nonce THEN Out(Err("IncorrectNonce"), h, i)
        ELSE IF is_jailed(staking) THEN Out(Err("IsJailed"), h, i)
        ELSE IF unbonded = -1 THEN Out(Err("CoinError"), h, i)
        ELSE IF total = -1 THEN Out(Err("CoinError"), h, i)
        ELSE IF ~subbed.ok THEN Out(Err("CoinError"), h, i)
        ELSE Out(Ok(unbonded_from),
                 set_staking(h, tx.from_staked_account,
                     inc_nonce([subbed.staking EXCEPT
                                  !.unbonded = unbonded,
                                  !.unbonded_from = unbonded_from])), i)

\* Variant: an unbond on top of an unbonded balance keeps the earlier
\* unbonded_from.
unbond_keep_lock(h, i, unbonding_period, bt, tx, fee) ==
    LET staking == get_or_default(h, tx.from_staked_account)
        unbonded == coin_add(staking.unbonded, tx.value)
        total == coin_add(tx.value, fee)
        subbed == sub_bonded(total, staking)
        unbonded_from == IF staking.unbonded = 0
                         THEN saturating_add(bt, unbonding_period)
                         ELSE staking.unbonded_from
    IN  IF tx.nonce # staking.nonce THEN Out(Err("IncorrectNonce"), h, i)
        ELSE IF is_jailed(staking) THEN Out(Err("IsJailed"), h, i)
        ELSE IF tx.value = 0 THEN Out(Err("ZeroValue"), h, i)
        ELSE IF unbonded = -1 THEN Out(Err("CoinError"), h, i)
        ELSE IF total = -1 THEN Out(Err("CoinError"), h, i)
        ELSE IF ~subbed.ok THEN Out(Err("CoinError"), h, i)
        ELSE Out(Ok(unbonded_from),
                 set_staking(h, tx.from_staked_account,
                     inc_nonce([subbed.staking EXCEPT
                                  !.unbonded = unbonded,
                                  !.unbonded_from = unbonded_from])), i)

unbond(h, i, unbonding_period, bt, tx, fee) ==
    LET staking == get_or_default(h, tx.from_staked_account)
        unbonded == coin_add(staking.unbonded, tx.value)
        total == coin_add(tx.value, fee)
        subbed == sub_bonded(total, staking)
        unbonded_from == saturating_add(bt, unbonding_period)
    IN  IF tx.nonce # staking.nonce THEN Out(Err("IncorrectNonce"), h, i)
        ELSE IF is_jailed(staking) THEN Out(Err("IsJailed"), h, i)
        ELSE IF tx.value = 0 THEN Out(Err("ZeroValue"), h, i)
        ELSE IF unbonded = -1 THEN Out(Err("CoinError"), h, i)
        ELSE IF total = -1 THEN Out(Err("CoinError"), h, i)
        ELSE IF ~subbed.ok THEN Out(Err("CoinError"), h, i)
        ELSE Out(Ok(unbonded_from),
                 set_staking(h, tx.from_staked_account,
                     inc_nonce([subbed.staking EXCEPT
                                  !.unbonded = unbonded,
                                  !.unbonded_from = unbonded_from])), i)

\* ----------------------------------------------------------- withdraw
\* Variant: a successful withdraw leaves the unbonded balance in place.
withdraw_keep(h, i, bt, addr, amount) ==
    LET staking == get_or_default(h, addr)
    IN  IF is_jailed(staking) THEN Out(Err("IsJailed"), h, i)
        ELSE IF bt < staking.unbonded_from THEN Out(Err("InUnbondingPeriod"), h, i)
        ELSE IF staking.unbonded # amount
             THEN Out(Err("UnbondedSanityCheck"), h, i)
        ELSE Out(Ok(0), set_staking(h, addr, inc_nonce(staking)), i)

\* Variant: the unbonding period is looked at before the jailed status.
withdraw_period_first(h, i, bt, addr, amount) ==
    LET staking == get_or_default(h, addr)
    IN  IF bt < staking.unbonded_from THEN Out(Err("InUnbondingPeriod"), h, i)
        ELSE IF is_jailed(staking) THEN Out(Err("IsJailed"), h, i)
        ELSE IF staking.unbonded # amount
             THEN Out(Err("UnbondedSanityCheck"), h, i)
        ELSE Out(Ok(0),
                 set_staking(h, addr, inc_nonce([staking EXCEPT !.unbonded = 0])),
                 i)

withdraw(h, i, bt, addr, amount) ==
    LET staking == get_or_default(h, addr)
    IN  IF is_jailed(staking) THEN Out(Err("IsJailed"), h, i)
        ELSE IF bt < staking.unbonded_from THEN Out(Err("InUnbondingPeriod"), h, i)
        ELSE IF staking.unbonded # amount
             THEN Out(Err("UnbondedSanityCheck"), h, i)
        ELSE Out(Ok(0),
                 set_staking(h, addr, inc_nonce([staking EXCEPT !.unbonded = 0])),
                 i)

\* ------------------------------------------------------------ actions
\* Consensus addresses are opaque and only compared for equality: a request
\* names an address of the index or the least address outside it.
FreshAddrs(i) ==
    LET free == ValAddrs \ DOMAIN i
    IN  IF free = {} THEN {} ELSE {CHOOSE v \in free : \A w \in free : v <= w}

\* A request declares the stored nonce or another one.
Nonces(a) == {heap[a].nonce, heap[a].nonce + 1}

Candidates(i) == (DOMAIN i) \cup FreshAddrs(i)

Call(op, addr, amount, out) ==
    /\ heap' = out.heap
    /\ idx' = out.idx
    /\ aborted' = out.panic
    /\ last' = [op |-> op, addr |-> addr,
                amount |-> IF out.res.ok THEN amount ELSE 0, res |-> out.res]
    /\ UNCHANGED <<block_time, mock_enclave>>

NodeJoinWith(a, nonce, role, v, kp, age, recent) ==
    LET tx == [nonce |-> nonce, address |-> a, role |-> role, val_addr |-> v,
               keypackage |-> kp]
    IN  /\ ~aborted
        /\ Call("node_join", a, 0,
                node_join(heap, idx, mock_enclave, block_time, age, recent, tx))
        /\ UNCHANGED ledger

NodeJoin(a, cap, nonce, role, v, kp, age, recent) ==
    /\ NodeJoinWith(a, nonce, role, v, kp, age, recent)
    /\ heap'[a].nonce <= cap

UnjailWith(a, nonce) ==
    /\ ~aborted
    /\ Call("unjail", a, 0,
            unjail(heap, idx, block_time, [nonce |-> nonce, address |-> a]))
    /\ UNCHANGED ledger

Unjail(a, cap, nonce) == UnjailWith(a, nonce) /\ heap'[a].nonce <= cap

DepositWith(a, amount) ==
    LET out == deposit(heap, idx, a, amount)
    IN  /\ ~aborted
        /\ Call("deposit", a, amount, out)
        /\ ledger' = [ledger EXCEPT ![a] = IF out.res.ok THEN @ + amount ELSE @]

Deposit(a, amount) == DepositWith(a, amount)

UnbondWith(a, nonce, value, fee, period) ==
    LET out == unbond(heap, idx, period, block_time,
                      [nonce |-> nonce, from_staked_account |-> a,
                       value |-> value], fee)
    IN  /\ ~aborted
        /\ Call("unbond", a, value, out)
        /\ ledger' = [ledger EXCEPT ![a] = IF out.res.ok THEN @ - fee ELSE @]

Unbond(a, cap, nonce, value, fee, period) ==
    UnbondWith(a, nonce, value, fee, period) /\ heap'[a].nonce <= cap

WithdrawWith(a, amount) ==
    LET out == withdraw(heap, idx, block_time, a, amount)
    IN  /\ ~aborted
        /\ Call("withdraw", a, amount, out)
        /\ ledger' = [ledger EXCEPT ![a] = IF out.res.ok THEN @ - amount ELSE @]

Withdraw(a, cap, amount) ==
    WithdrawWith(a, amount) /\ heap'[a].nonce <= cap

\* ------------------------------------------------- the chain around it
EnvStep(op, a) ==
    /\ ~aborted
    /\ last' = [op |-> op, addr |-> a, amount |-> 0, res |-> Ok(0)]
    /\ UNCHANGED <<idx, mock_enclave, ledger, aborted>>

\* The next block begins.
NextBlock ==
    /\ block_time < TimespecMax
    /\ block_time' = block_time + 1
    /\ EnvStep("next_block", "A")
    /\ UNCHANGED heap

\* Punishment jails a validator until some time.
Jail(a, t) ==
    /\ heap[a].node_meta.kind = "CouncilNode"
    /\ ~val_is_jailed(heap[a].node_meta)
    /\ heap' = [heap EXCEPT ![a].node_meta.jailed_until = t]
    /\ EnvStep("jail", a)
    /\ UNCHANGED block_time

\* A validator leaves the active set.
Inactivate(a) ==
    /\ heap[a].node_meta.kind = "CouncilNode"
    /\ val_is_active(heap[a].node_meta)
    /\ heap' = [heap EXCEPT ![a].node_meta.active = FALSE]
    /\ EnvStep("inactivate", a)
    /\ UNCHANGED block_time

\* ------------------------------------------------------ specifications
InitWith(mock) ==
    /\ heap = [a \in Accounts |-> DefaultStakedState]
    /\ idx = <<>>
    /\ block_time = 0
    /\ mock_enclave = mock
    /\ ledger = [a \in Accounts |-> 0]
    /\ aborted = FALSE
    /\ last = [op |-> "init", addr |-> "A", amount |-> 0, res |-> Ok(0)]

\* The production build: attestation is verified.
Init == InitWith(FALSE)

\* Every operation, in depth, on one account.
Next ==
    \/ \E nonce \in Nonces("A"), role \in Roles, v \in Candidates(idx),
          kp \in KeyPackages, age \in EvidenceAges, recent \in Svns :
           NodeJoin("A", MaxNonce, nonce, role, v, kp, age, recent)
    \/ \E nonce \in Nonces("A") : Unjail("A", MaxNonce, nonce)
    \/ \E amount \in Coins : Deposit("A", amount)
    \/ \E nonce \in Nonces("A"), value \in Coins, fee \in 0..MaxFee,
          period \in UnbondingPeriods :
           Unbond("A", MaxNonce, nonce, value, fee, period)
    \/ \E amount \in Coins : Withdraw("A", MaxNonce + 1, amount)
    \/ \E t \in block_time..TimespecMax : Jail("A", t)
    \/ Inactivate("A")
    \/ NextBlock

Spec == Init /\ [][Next]_vars

\* Two accounts competing for consensus addresses.
NextVal ==
    \/ \E a \in Accounts, v \in Candidates(idx), age \in RotAges :
           NodeJoin(a, MaxNonce, heap[a].nonce, "CouncilNode", v, "svn0", age, 0)
    \/ \E a \in Accounts : Deposit(a, MaxCoin)
    \/ \E a \in Accounts :
           Unbond(a, MaxNonce, heap[a].nonce, MaxCoin, 0, 0)
    \/ \E a \in Accounts : Withdraw(a, MaxNonce, MaxCoin)
    \/ \E a \in Accounts : Inactivate(a)
    \/ NextBlock


SpecVal == Init /\ [][NextVal]_vars

\* Rotation of consensus addresses in depth. Both accounts start with the
\* minimal bond deposited; "A" may rotate until its list is full.
InitRot ==
    /\ heap = [a \in Accounts |->
                 [DefaultStakedState EXCEPT !.bonded = MinimalRequiredStaking]]
    /\ idx = <<>>
    /\ block_time = 0
    /\ mock_enclave = FALSE
    /\ ledger = [a \in Accounts |-> MinimalRequiredStaking]
    /\ aborted = FALSE
    /\ last = [op |-> "deposit", addr |-> "B",
               amount |-> MinimalRequiredStaking, res |-> Ok(0)]

NextRot ==
    \/ \E v \in Candidates(idx), age \in RotAges :
           NodeJoin("A", MaxRotNonce, heap["A"].nonce, "CouncilNode", v, "svn0", age, 0)
    \/ \E v \in Candidates(idx) :
           NodeJoin("B", 1, heap["B"].nonce, "CouncilNode", v, "svn0", TimespecMax, 0)
    \/ Inactivate("A")
    \/ NextBlock

SpecRot == InitRot /\ [][NextRot]_vars

\* Join requests of every shape against validators in every condition: "A"
\* deposits, joins, is jailed or deactivated and rotates until its list is
\* full, while "B" joins once and owns an address.
NextOrd ==
    \/ Deposit("A", MinimalRequiredStaking)
    \/ Deposit("B", MaxCoin)
    \/ \E nonce \in Nonces("A"), role \in Roles, v \in Candidates(idx),
          kp \in KeyPackages :
           NodeJoin("A", MaxRotNonce - 1, nonce, role, v, kp, TimespecMax, 0)
    \/ \E v \in Candidates(idx) :
           NodeJoin("B", 1, heap["B"].nonce, "CouncilNode", v, "svn0", TimespecMax, 0)
    \/ Inactivate("A")
    \/ Jail("A", TimespecMax)

SpecOrd == Init /\ [][NextOrd]_vars

\* Either build: attestation verified, or bypassed by the mock-enclave feature.
InitAny == \E mock \in BOOLEAN : InitWith(mock)

SpecSvn == InitAny /\ [][Next]_vars

TypeOK ==
    /\ \A a \in Accounts :
          /\ heap[a].bonded \in Coins
          /\ heap[a].unbonded \in Coins
          /\ heap[a].unbonded_from \in Times
          /\ heap[a].nonce \in 0..MaxRotNonce
    /\ DOMAIN idx \subseteq ValAddrs
    /\ block_time \in Times

\* -------------------------------------------------------------- claims
FiveOps == {"node_join", "unjail", "deposit", "unbond", "withdraw"}

NonceOps == {"node_join", "unjail", "unbond"}

\* The step just taken was a call of one of the five operations.
Called == last'.op \in FiveOps

Rejected == Called /\ ~last'.res.ok

Succeeded == Called /\ last'.res.ok

\* C1: conservation of value. For every account, bonded + unbonded equals
\* the amounts of the successful deposits minus the fees of the successful
\* unbonds minus the amounts of the successful withdraws; rejected calls
\* contribute nothing.
C1_Conservation ==
    \A a \in Accounts : heap[a].bonded + heap[a].unbonded = ledger[a]

\* Value was deposited, unbonded and then paid out by a successful withdraw.
C1_Witness ==
    /\ last.op = "withdraw" /\ last.res.ok /\ last.amount > 0
    /\ heap["A"].nonce = 2
    /\ heap["A"].unbonded_from > 0
    /\ heap["A"].bonded + last.amount < MaxCoin

\* C2: nonce monotonicity. A successful node_join, unjail or unbond leaves
\* the account's nonce exactly one greater, a rejected call of any of the
\* five operations leaves every nonce unchanged, and no step decreases a nonce.
C2_NonceMonotone ==
    [][ /\ (Succeeded /\ last'.op \in NonceOps)
            => heap'[last'.addr].nonce = heap[last'.addr].nonce + 1
        /\ Rejected => \A a \in Accounts : heap'[a].nonce = heap[a].nonce
        /\ \A a \in Accounts : heap'[a].nonce >= heap[a].nonce ]_vars

\* A jailed validator has been unjailed: its second nonce-declaring success.
C2_Witness ==
    /\ last.op = "unjail" /\ last.res.ok
    /\ heap["A"].nonce = 2

\* C3: validator-address uniqueness. Every key of idx_validator_address is
\* associated with exactly one account, and no two distinct accounts with
\* CouncilNode state have the same current consensus address.
C3_AddressUnique ==
    /\ \A v \in DOMAIN idx : Cardinality({a \in Accounts : idx[v] = a}) = 1
    /\ \A a, b \in Accounts :
          (/\ a # b
           /\ heap[a].node_meta.kind = "CouncilNode"
           /\ heap[b].node_meta.kind = "CouncilNode")
          => heap[a].node_meta.validator_address
                 # heap[b].node_meta.validator_address

\* Both accounts are validators, one of them after a rotation, and the last
\* call was turned away for declaring an address of the index.
C3_Witness ==
    /\ \A a \in Accounts : heap[a].node_meta.kind = "CouncilNode"
    /\ Cardinality(DOMAIN idx) = 3
    /\ last.op = "node_join"
    /\ last.res.err = "DuplicateValidatorAddress"

\* C4: rejections are atomic. A rejected call of any of the five operations
\* leaves the StakedState of every account and idx_validator_address as
\* they were before the call.
C4_RejectionAtomic ==
    [][ Rejected => (heap' = heap /\ idx' = idx) ]_vars

\* An unbond was rejected for insufficient bonded funds on a funded validator.
C4_Witness ==
    /\ last.op = "unbond" /\ last.res.err = "CoinError"
    /\ heap["A"].bonded > 0
    /\ heap["A"].node_meta.kind = "CouncilNode"
    /\ DOMAIN idx # {}

\* An index entry names the current address of an active validator.
LiveEntry(v) ==
    LET val == heap[idx[v]].node_meta
    IN  val.kind = "CouncilNode" /\ val.validator_address = v /\ val.active

\* An index entry names the current or a retained used address of a validator.
OwnedEntry(v) ==
    LET val == heap[idx[v]].node_meta
    IN  /\ val.kind = "CouncilNode"
        /\ (val.validator_address = v \/ v \in UsedAddrs(val))

\* C5 as stated: after every mutating operation, every entry (v -> a) of
\* idx_validator_address points to an account whose CouncilNode state
\* reports v as its current consensus address and is marked active.
C5_LiveIndexOriginal ==
    (last.op \in FiveOps /\ last.res.ok) => \A v \in DOMAIN idx : LiveEntry(v)

\* C5 amended: every entry (v -> a) of idx_validator_address points to an
\* account with CouncilNode state whose current consensus address is v or
\* whose used_validator_addresses list contains v; the account may be inactive.
C5_OwnedIndex ==
    \A v \in DOMAIN idx : OwnedEntry(v)

\* After a rotation the index still holds the retired address of the account.
C5_Witness ==
    /\ last.op = "node_join" /\ last.res.ok
    /\ \E v \in DOMAIN idx :
          /\ idx[v] = last.addr
          /\ v \in UsedAddrs(heap[last.addr].node_meta)
          /\ ~LiveEntry(v)

\* C6: rotation boundedness. The used_validator_addresses list of every
\* validator has at most 10 entries in every state.
C6_RotationBounded ==
    \A a \in Accounts :
        Len(heap[a].node_meta.used_validator_addresses) <= MAX_USED_VALIDATOR_ADDR

\* The list is full and a further rotation has just been turned away.
C6_Witness ==
    /\ Len(heap["A"].node_meta.used_validator_addresses) = MAX_USED_VALIDATOR_ADDR
    /\ last.op = "node_join" /\ last.addr = "A"
    /\ last.res.err = "UsedValidatorAddrFull"

\* The step repeats, with the same amount, a withdraw that has just succeeded.
RepeatedWithdraw(m) ==
    /\ last.op = "withdraw" /\ last.res.ok /\ last.amount = m
    /\ WithdrawWith(last.addr, m)

WithdrawMismatch ==
    /\ last'.res.err = "UnbondedSanityCheck"
    /\ heap' = heap
    /\ idx' = idx

\* C7 as stated: for every amount, a withdraw repeated right after a
\* successful one is rejected with UnbondedSanityCheck and changes nothing.
C7_RepeatOriginal ==
    [][ \A m \in Coins : RepeatedWithdraw(m) => WithdrawMismatch ]_vars

\* C7 amended: for every non-zero amount, a withdraw repeated right after a
\* successful one, at a block time that is not earlier, is rejected with
\* UnbondedSanityCheck and changes nothing.
C7_RepeatNonZero ==
    [][ \A m \in Coins \ {0} : RepeatedWithdraw(m) => WithdrawMismatch ]_vars

\* Unbonded value was withdrawn and a further withdraw met the mismatch.
C7_Witness ==
    /\ last.op = "withdraw" /\ last.res.err = "UnbondedSanityCheck"
    /\ heap["A"].nonce = 2
    /\ heap["A"].unbonded = 0
    /\ heap["A"].unbonded_from > 0
    /\ heap["A"].node_meta.kind = "None"

\* C8: every successful call of the five operations increments the nonce of
\* the account it touches by exactly 1.
C8_EverySuccessIncrements ==
    [][ Succeeded => heap'[last'.addr].nonce = heap[last'.addr].nonce + 1 ]_vars

\* The step is a node_join by b declaring v that passes the nonce, bond,
\* attestation and role checks.
JoinDeclaring(b, v, age) ==
    /\ heap[b].bonded >= MinimalRequiredStaking
    /\ last'.op = "node_join"
    /\ last'.addr = b
    /\ NodeJoinWith(b, heap[b].nonce, "CouncilNode", v, "svn0", age, 0)

OwnedBy(v, a) == v \in DOMAIN idx /\ idx[v] = a

DuplicateKept(v, a) ==
    /\ last'.res.err = "DuplicateValidatorAddress"
    /\ v \in DOMAIN idx'
    /\ idx'[v] = a

\* b has no CouncilNode state, or is an inactive validator that is not jailed.
MayJoin(b) ==
    \/ heap[b].node_meta.kind = "None"
    \/ (~val_is_jailed(heap[b].node_meta) /\ ~val_is_active(heap[b].node_meta))

\* C9 as stated: when the index maps v to A, a node_join by another account
\* B declaring v that passes the nonce, bond, attestation and role checks is
\* rejected with DuplicateValidatorAddress and the index still maps v to A.
C9_DuplicateOriginal ==
    [][ \A a, b \in Accounts, v \in DOMAIN idx, age \in RotAges :
            (a # b /\ OwnedBy(v, a) /\ JoinDeclaring(b, v, age))
            => DuplicateKept(v, a) ]_vars

\* C9 amended: the same, for a B that has no CouncilNode state or whose
\* CouncilNode state is inactive and not jailed (a jailed B is rejected with
\* IsJailed and an active B with AlreadyJoined before the address is looked at).
C9_DuplicateForJoiner ==
    [][ \A a, b \in Accounts, v \in DOMAIN idx, age \in RotAges :
            (a # b /\ OwnedBy(v, a) /\ MayJoin(b) /\ JoinDeclaring(b, v, age))
            => DuplicateKept(v, a) ]_vars

\* An inactive validator was turned away for declaring the address of another.
C9_Witness ==
    /\ last.op = "node_join" /\ last.res.err = "DuplicateValidatorAddress"
    /\ heap[last.addr].node_meta.kind = "CouncilNode"
    /\ ~heap[last.addr].node_meta.active
    /\ \E v \in DOMAIN idx :
          /\ idx[v] # last.addr
          /\ heap[idx[v]].node_meta.validator_address = v

\* An entry of the used list that has not expired at the current block time.
Unexpired(e, age) == saturating_add(e[2], age) > block_time

\* The step is a re-join of the inactive, non-jailed validator a with a new
\* consensus address v that nobody owns.
Rotating(a, v, age) ==
    /\ heap[a].node_meta.kind = "CouncilNode"
    /\ ~heap[a].node_meta.active
    /\ heap[a].node_meta.jailed_until = NoTime
    /\ v # heap[a].node_meta.validator_address
    /\ v \notin DOMAIN idx
    /\ JoinDeclaring(a, v, age)

RotationOutcome(a, v, age) ==
    LET val == heap[a].node_meta
        used == val.used_validator_addresses
        kept == SelectSeq(used, LAMBDA e : Unexpired(e, age))
        expired == {e[1] : e \in {x \in SeqRange(used) : ~Unexpired(x, age)}}
    IN  IF Len(kept) < 10
        THEN /\ last'.res.ok
             /\ heap'[a].node_meta.used_validator_addresses
                    = Append(kept, <<val.validator_address, block_time>>)
             /\ heap'[a].node_meta.validator_address = v
             /\ heap'[a].node_meta.active
             /\ DOMAIN idx' = ((DOMAIN idx) \ expired) \cup {v}
             /\ idx'[v] = a
             /\ \A w \in (DOMAIN idx) \ expired : idx'[w] = idx[w]
        ELSE /\ last'.res.err = "UsedValidatorAddrFull"
             /\ heap' = heap
             /\ idx' = idx

\* C10: address rotation outcome. A re-join of an inactive, non-jailed
\* validator with a new unowned address succeeds exactly when fewer than 10
\* entries of its used list are unexpired; on success the expired entries
\* are dropped, (old address, block_time) is appended, the expired addresses
\* leave the index and the new address enters it mapped to the account;
\* otherwise it is rejected with UsedValidatorAddrFull and nothing changes.
C10_RotationOutcome ==
    [][ \A a \in Accounts, v \in FreshAddrs(idx), age \in RotAges :
            Rotating(a, v, age) => RotationOutcome(a, v, age) ]_vars

\* Ten rotations without expiry succeeded and the eleventh was rejected: the
\* validator is still inactive under its tenth rotated address.
C10_Witness ==
    /\ last.op = "node_join" /\ last.addr = "A"
    /\ last.res.err = "UsedValidatorAddrFull"
    /\ heap["A"].nonce = 11
    /\ ~heap["A"].node_meta.active
    /\ Len(heap["A"].node_meta.used_validator_addresses) = 10
    /\ heap["A"].node_meta.validator_address
           \notin UsedAddrs(heap["A"].node_meta)

\* The account has CouncilNode state with jailed_until set.
Jailed(a) ==
    /\ heap[a].node_meta.kind = "CouncilNode"
    /\ heap[a].node_meta.jailed_until # NoTime

\* The step rejected the call with the given reason and changed no record.
RejectedWith(reason) ==
    /\ ~last'.res.ok
    /\ last'.res.err = reason
    /\ heap' = heap
    /\ idx' = idx

WithdrawOutcome(a, m) ==
    IF Jailed(a) THEN RejectedWith("IsJailed")
    ELSE IF block_time < heap[a].unbonded_from
         THEN RejectedWith("InUnbondingPeriod")
    ELSE IF m # heap[a].unbonded THEN RejectedWith("UnbondedSanityCheck")
    ELSE /\ last'.res.ok
         /\ heap'[a].unbonded = 0
         /\ heap'[a].nonce = heap[a].nonce + 1
         /\ heap'[a].bonded = heap[a].bonded
         /\ heap'[a].unbonded_from = heap[a].unbonded_from

\* C11: withdraw(block_time, addr, amount) succeeds exactly when the account
\* is not jailed, block_time >= unbonded_from and amount equals the stored
\* unbonded balance; on success unbonded becomes 0, the nonce grows by 1 and
\* bonded and unbonded_from stay; otherwise it is rejected with IsJailed,
\* InUnbondingPeriod or UnbondedSanityCheck, checked in that order, and
\* nothing is paid out.
C11_WithdrawContract ==
    [][ \A a \in Accounts, m \in Coins :
            (last'.op = "withdraw" /\ last'.addr = a /\ WithdrawWith(a, m))
            => WithdrawOutcome(a, m) ]_vars

\* A withdraw on a jailed validator whose unbonding period still runs was
\* turned away for being jailed.
C11_Witness ==
    /\ last.op = "withdraw" /\ last.res.err = "IsJailed"
    /\ Jailed("A")
    /\ heap["A"].unbonded > 0
    /\ block_time < heap["A"].unbonded_from

Min(x, y) == IF x <= y THEN x ELSE y

\* The step is an unbond by a declaring nonce n, value v, fee f under period p.
Unbonding(a, n, v, f, p) ==
    /\ last'.op = "unbond"
    /\ last'.addr = a
    /\ UnbondWith(a, n, v, f, p)

UnbondPreconditions(a, n, v, f) ==
    /\ n = heap[a].nonce
    /\ ~Jailed(a)
    /\ v # 0
    /\ heap[a].unbonded + v <= MaxCoin
    /\ v + f <= MaxCoin
    /\ heap[a].bonded >= v + f

UnbondEffect(a, v, f, p) ==
    /\ heap'[a].unbonded = heap[a].unbonded + v
    /\ heap'[a].bonded = heap[a].bonded - (v + f)
    /\ heap'[a].bonded >= 0
    /\ heap'[a].unbonded_from = Min(block_time + p, TimespecMax)
    /\ heap'[a].nonce = heap[a].nonce + 1
    /\ last'.res.ret = heap'[a].unbonded_from

\* C12: a successful unbond of value v with fee f at block_time t under
\* unbonding period p sets unbonded' = unbonded + v, bonded' = bonded - (v + f),
\* unbonded_from' = min(t + p, max time) and nonce' = nonce + 1 and returns
\* unbonded_from'; it succeeds only if the nonce matches, the account is not
\* jailed, v is non-zero, unbonded + v and v + f stay within the coin bound
\* and bonded >= v + f, so bonded never becomes negative.
C12_UnbondContract ==
    [][ \A a \in Accounts : \A n \in Nonces(a), v \in Coins, f \in 0..MaxFee,
                                 p \in UnbondingPeriods :
            (Unbonding(a, n, v, f, p) /\ last'.res.ok)
            => (UnbondPreconditions(a, n, v, f) /\ UnbondEffect(a, v, f, p)) ]_vars

\* An unbond of value 1 with fee 1 emptied a bond of 2, with the end of the
\* unbonding period falling on the largest time.
C12_Witness ==
    /\ last.op = "unbond" /\ last.res.ok /\ last.amount = 1
    /\ last.res.ret = TimespecMax
    /\ block_time >= 1
    /\ heap["A"].nonce = 1
    /\ heap["A"].bonded = 0
    /\ heap["A"].unbonded = 1
    /\ heap["A"].unbonded_from = TimespecMax
    /\ ledger["A"] = 1

\* The step is an unjail by a declaring nonce n.
Unjailing(a, n) ==
    /\ last'.op = "unjail"
    /\ last'.addr = a
    /\ UnjailWith(a, n)

UnjailOutcome(a, n) ==
    LET val == heap[a].node_meta
    IN  IF n # heap[a].nonce THEN ~last'.res.ok /\ heap' = heap
        ELSE IF val.kind # "CouncilNode" \/ val.jailed_until = NoTime
             THEN RejectedWith("NotJailed")
        ELSE IF block_time < val.jailed_until
             THEN RejectedWith("JailTimeNotExpired")
        ELSE /\ last'.res.ok
             /\ heap'[a].node_meta.jailed_until = NoTime
             /\ heap'[a].nonce = heap[a].nonce + 1

\* C13: unjail succeeds exactly when the declared nonce equals the stored
\* one, the account has CouncilNode state with jailed_until = Some(t) and
\* block_time >= t; on success jailed_until is cleared and the nonce grows
\* by 1. With a matching nonce it is rejected with NotJailed when there is no
\* CouncilNode state or jailed_until is unset, and with JailTimeNotExpired
\* when block_time < t: no call made before t unjails a validator jailed
\* until t.
C13_UnjailContract ==
    [][ \A a \in Accounts : \A n \in Nonces(a) :
            Unjailing(a, n) => UnjailOutcome(a, n) ]_vars

\* An unjail with the right nonce came one time unit early and was rejected.
C13_Witness ==
    /\ last.op = "unjail" /\ last.res.err = "JailTimeNotExpired"
    /\ Jailed("A")
    /\ heap["A"].node_meta.jailed_until = block_time + 1

\* The step is a deposit of amount m to a.
Depositing(a, m) ==
    /\ last'.op = "deposit"
    /\ last'.addr = a
    /\ DepositWith(a, m)

DepositOutcome(a, m) ==
    IF Jailed(a) THEN RejectedWith("IsJailed")
    ELSE IF heap[a].bonded + m > MaxCoin THEN RejectedWith("CoinError")
    ELSE /\ last'.res.ok
         /\ heap'[a] = [heap[a] EXCEPT !.bonded = heap[a].bonded + m]
         /\ heap'[a].nonce = heap[a].nonce
         /\ heap'[a].unbonded = heap[a].unbonded
         /\ heap'[a].unbonded_from = heap[a].unbonded_from
         /\ heap'[a].node_meta = heap[a].node_meta

\* C14: deposit(addr, amount) on a non-jailed account whose bonded + amount
\* stays within the coin bound sets bonded' = bonded + amount and leaves
\* nonce, unbonded, unbonded_from and node_meta as they were (the nonce is
\* neither checked nor incremented); on a jailed account it is rejected with
\* IsJailed and on overflow with a coin error, and the record is unchanged.
C14_DepositContract ==
    [][ \A a \in Accounts, m \in Coins :
            Depositing(a, m) => DepositOutcome(a, m) ]_vars

\* A validator that has joined and unbonded received a further deposit.
C14_Witness ==
    /\ last.op = "deposit" /\ last.res.ok /\ last.amount = 1
    /\ heap["A"].node_meta.kind = "CouncilNode"
    /\ heap["A"].nonce = 2
    /\ heap["A"].bonded = 2
    /\ heap["A"].unbonded = 1

FrameOps == {"unjail", "deposit", "unbond", "withdraw"}

\* The step left a's consensus address, used list and activity as they were.
ValidatorKept(a) ==
    /\ heap'[a].node_meta.kind = heap[a].node_meta.kind
    /\ heap'[a].node_meta.validator_address = heap[a].node_meta.validator_address
    /\ heap'[a].node_meta.used_validator_addresses
           = heap[a].node_meta.used_validator_addresses
    /\ heap'[a].node_meta.active = heap[a].node_meta.active

JoinResult(a, n, role, v, kp, age) ==
    node_join(heap, idx, mock_enclave, block_time, age, 0,
              [nonce |-> n, address |-> a, role |-> role, val_addr |-> v,
               keypackage |-> kp]).res

AttestationError(kp) ==
    IF kp = "undecodable" THEN "KeyPackageDecodeError" ELSE "KeyPackageVerifyError"

\* a is a validator whose used list has no room left for its current address.
ListFull(a, age) ==
    Cardinality({k \in 1..Len(heap[a].node_meta.used_validator_addresses) :
                    Unexpired(heap[a].node_meta.used_validator_addresses[k], age)})
        >= MAX_USED_VALIDATOR_ADDR

\* a is a validator that declares an address other than its current one.
Moves(a, v) ==
    /\ heap[a].node_meta.kind = "CouncilNode"
    /\ v # heap[a].node_meta.validator_address

\* The reason the order of the preconditions prescribes, "None" for success.
\* An address the index maps to the joiner itself is left to the rule on
\* duplicates: no reason that comes earlier in the order may be given for it.
FirstFailing(a, n, role, v, kp, age) ==
    IF n # heap[a].nonce THEN {"IncorrectNonce"}
    ELSE IF heap[a].bonded < MinimalRequiredStaking THEN {"BondedNotEnough"}
    ELSE IF ~mock_enclave /\ kp \in {"undecodable", "unverifiable"}
         THEN {AttestationError(kp)}
    ELSE IF role # "CouncilNode" THEN {"WIPNotValidator"}
    ELSE IF Jailed(a) THEN {"IsJailed"}
    ELSE IF heap[a].node_meta.kind = "CouncilNode" /\ heap[a].node_meta.active
         THEN {"AlreadyJoined"}
    ELSE IF v \in DOMAIN idx /\ idx[v] # a THEN {"DuplicateValidatorAddress"}
    ELSE IF Moves(a, v) /\ v \in DOMAIN idx
         THEN {"DuplicateValidatorAddress", "UsedValidatorAddrFull", "None"}
    ELSE IF Moves(a, v) /\ ListFull(a, age) THEN {"UsedValidatorAddrFull"}
    ELSE {"None"}

\* C16: node_join reports the first failing precondition in a fixed order:
\* nonce mismatch (IncorrectNonce), bonded below the minimum
\* (BondedNotEnough), attestation decode or verification failure, a
\* non-council role (WIPNotValidator), then for an existing validator jailed
\* (IsJailed) before already active (AlreadyJoined), then
\* DuplicateValidatorAddress before UsedValidatorAddrFull; when several
\* preconditions fail at once the earliest in this order is the reason given.
C16_JoinOrder ==
    \A a \in Accounts : \A n \in Nonces(a), role \in Roles,
                           v \in Candidates(idx), kp \in KeyPackages,
                           age \in EvidenceAges :
        JoinResult(a, n, role, v, kp, age).err
            \in FirstFailing(a, n, role, v, kp, age)

\* The list of "A" is full, "B" owns an address, and a re-join of inactive "A"
\* was rejected as a duplicate rather than for the full list.
C16_Witness ==
    /\ last.op = "node_join" /\ last.addr = "A"
    /\ last.res.err = "DuplicateValidatorAddress"
    /\ ~heap["A"].node_meta.active
    /\ ~Jailed("A")
    /\ ListFull("A", TimespecMax)
    /\ \E v \in DOMAIN idx : idx[v] = "B"

\* a is an inactive validator that is not jailed, holds the minimal bond and
\* declares, with its stored nonce, a consensus address other than its own.
Rejoins(a, v) ==
    /\ Moves(a, v)
    /\ ~heap[a].node_meta.active
    /\ ~Jailed(a)
    /\ heap[a].bonded >= MinimalRequiredStaking

\* C17: in a re-join of an inactive validator with a consensus address
\* different from its stored one, node_join is rejected with
\* DuplicateValidatorAddress if and only if idx_validator_address maps the
\* new address to an account other than the joining one; an address the
\* index maps to the joiner itself, such as one of its own retained used
\* addresses, is not rejected as a duplicate.
C17_DuplicateOnlyForOthers ==
    \A a \in Accounts, v \in Candidates(idx), age \in RotAges :
        Rejoins(a, v)
        => (JoinResult(a, heap[a].nonce, "CouncilNode", v, "svn0", age).err
                = "DuplicateValidatorAddress"
            <=> (v \in DOMAIN idx /\ idx[v] # a))

\* What node_join answers to a request of a when the chain's recent version
\* is recent.
VersionResult(a, n, role, v, kp, age, recent) ==
    node_join(heap, idx, mock_enclave, block_time, age, recent,
              [nonce |-> n, address |-> a, role |-> role, val_addr |-> v,
               keypackage |-> kp]).res

\* The version a key package attests; 0 when attestation is bypassed.
Attested(kp) == IF mock_enclave THEN 0 ELSE IF kp = "svn1" THEN 1 ELSE 0

Max(x, y) == IF x >= y THEN x ELSE y

VersionPolicy(a, n, role, v, kp, age, recent) ==
    LET r == VersionResult(a, n, role, v, kp, age, recent)
        atFloor == VersionResult(a, n, role, v, kp, age, Max(Attested(kp), recent))
    IN  /\ r.ok => (r.ret = Max(Attested(kp), recent) /\ r.ret >= recent)
        /\ Attested(kp) > recent => (r.ok <=> atFloor.ok)

\* C18: version policy. Every successful node_join returns the maximum of
\* the attested version and recent_isv_svn, the attested version being 0
\* when attestation is bypassed (mock mode); an attested version above
\* recent_isv_svn never causes a rejection, and the returned value is never
\* lower than recent_isv_svn.
C18_VersionPolicy ==
    \A a \in Accounts : \A n \in Nonces(a), role \in Roles,
                           v \in Candidates(idx), kp \in KeyPackages,
                           age \in EvidenceAges, recent \in Svns :
        VersionPolicy(a, n, role, v, kp, age, recent)

\* With attestation bypassed, a join succeeded and returned the recent
\* version 1, above the attested 0.
C18_Witness ==
    /\ mock_enclave
    /\ last.op = "node_join" /\ last.res.ok
    /\ last.res.ret = 1
    /\ heap["A"].node_meta.kind = "CouncilNode"

\* The addresses the step removed from the index.
Evicted == (DOMAIN idx) \ (DOMAIN idx')

\* C19: the eviction assertion never fails. In every state reachable by the
\* operations, whenever node_join evicts an expired used address during a
\* rotation, idx_validator_address maps that address to the joining
\* account, so the fatal abort at eviction is never reached.
C19_EvictionSafe ==
    [][ /\ ~aborted'
        /\ last'.res.err # "Panic"
        /\ last'.op = "node_join" => \A u \in Evicted : idx[u] = last'.addr ]_vars

\* A rotation evicted the expired first address of "A" from the index.
C19_Witness ==
    /\ last.op = "node_join" /\ last.addr = "A" /\ last.res.ok
    /\ heap["A"].nonce = 3
    /\ Len(heap["A"].node_meta.used_validator_addresses) = 1
    /\ 1 \notin DOMAIN idx
    /\ heap["A"].node_meta.validator_address \in DOMAIN idx
    /\ heap["B"].node_meta.kind = "None"

\* The index attributes v to a.
Attributed(v, a) == v \in DOMAIN idx /\ idx[v] = a

\* C20: in every reachable state, for every account with CouncilNode state,
\* its current consensus address and every address of its
\* used_validator_addresses list are keys of idx_validator_address mapped to
\* that account, the list contains no address twice, and the current
\* address is not in the list (a retired address stays attributable to its
\* owner until it is evicted as expired).
C20_AddressesAttributed ==
    \A a \in Accounts :
        LET val == heap[a].node_meta
            used == val.used_validator_addresses
        IN  val.kind = "CouncilNode"
            => /\ Attributed(val.validator_address, a)
               /\ \A k \in 1..Len(used) : Attributed(used[k][1], a)
               /\ \A j, k \in 1..Len(used) : used[j][1] = used[k][1] => j = k
               /\ val.validator_address \notin UsedAddrs(val)

\* "A" has rotated twice and its first address, evicted as expired, has just
\* been taken by "B"; the address "A" retired last is still attributed to "A".
C20_Witness ==
    /\ last.op = "node_join" /\ last.addr = "B" /\ last.res.ok
    /\ heap["B"].node_meta.validator_address = 1
    /\ heap["A"].nonce = 3
    /\ Len(heap["A"].node_meta.used_validator_addresses) = 1
    /\ 1 \notin UsedAddrs(heap["A"].node_meta)

\* The step is a successful call of op on a.
Did(op, a) == last'.op = op /\ last'.addr = a /\ last'.res.ok

\* A successful unbond under some period locks the account until
\* min(block_time + period, max time), whatever lock it had before.
Relocked(a) ==
    \E p \in UnbondingPeriods :
        /\ heap'[a].unbonded_from = Min(block_time + p, TimespecMax)
        /\ last'.res.ret = heap'[a].unbonded_from

====
